---- MODULE Spec2Model ----
(***************************************************************************)
(* ToolUniverse: the NanoBioToxicityEstimator tool, the UniProt_search     *)
(* wrapper, and the dispatch core (registry, validator, cache, shared      *)
(* client) that both are consumed through.                                 *)
(*                                                                         *)
(* Units.  Sizes (nm) and charges (mV) are floats in the code; here a      *)
(* float is an integer number of tenths.  Scores are in thousandths, so    *)
(* 2.5 is 2500 and the clamp bound 10.0 is 10000.                          *)
(*                                                                         *)
(* Python values are tagged records: [t |-> "none"], [t |-> "int", v],     *)
(* [t |-> "float", v (tenths)], [t |-> "str", v (sequence of characters)], *)
(* [t |-> "list", obj (identity), items].  A dict is the sequence of its   *)
(* <<key, value>> pairs in insertion order.                                *)
(***************************************************************************)
EXTENDS Integers, Sequences, FiniteSets, TLC

VARIABLES registry, cache, execCount, nCalls, last

vars == <<registry, cache, execCount, nCalls, last>>

\* ------------------------------------------------------------------ values

None == [t |-> "none"]

IntV(n) == [t |-> "int", v |-> n]

FloatV(tenths) == [t |-> "float", v |-> tenths]

StrV(chars) == [t |-> "str", v |-> chars]

ListV(o, xs) == [t |-> "list", obj |-> o, items |-> xs]

\* ------------------------------------------------------------------ dicts

Keys(d) == {d[i][1] : i \in DOMAIN d}

\* d[k] for a key that is present
Get(d, k) == LET i == CHOOSE j \in DOMAIN d : d[j][1] = k IN d[i][2]

\* ---------------------------------------------------------------- strings

Whitespace == {" ", "\t", "\n"}

UpperToLower ==
    [c \in {"A","B","C","D","E","F","G","H","I","J","K","L","M","N","O","P",
            "Q","R","S","T","U","V","W","X","Y","Z"} |->
       CASE c = "A" -> "a" [] c = "B" -> "b" [] c = "C" -> "c" [] c = "D" -> "d"
         [] c = "E" -> "e" [] c = "F" -> "f" [] c = "G" -> "g" [] c = "H" -> "h"
         [] c = "I" -> "i" [] c = "J" -> "j" [] c = "K" -> "k" [] c = "L" -> "l"
         [] c = "M" -> "m" [] c = "N" -> "n" [] c = "O" -> "o" [] c = "P" -> "p"
         [] c = "Q" -> "q" [] c = "R" -> "r" [] c = "S" -> "s" [] c = "T" -> "t"
         [] c = "U" -> "u" [] c = "V" -> "v" [] c = "W" -> "w" [] c = "X" -> "x"
         [] c = "Y" -> "y" [] c = "Z" -> "z"]

\* str.lower()
lower(s) == [i \in DOMAIN s |-> IF s[i] \in DOMAIN UpperToLower THEN UpperToLower[s[i]] ELSE s[i]]

\* str.strip(): drop leading and trailing whitespace, keep inner whitespace
strip(s) ==
    LET solid == {i \in DOMAIN s : s[i] \notin Whitespace}
    IN  IF solid = {} THEN <<>>
        ELSE LET lo == CHOOSE i \in solid : \A j \in solid : i <= j
                 hi == CHOOSE i \in solid : \A j \in solid : j <= i
             IN  SubSeq(s, lo, hi)

DigitValue ==
    [c \in {"0","1","2","3","4","5","6","7","8","9"} |->
       CASE c = "0" -> 0 [] c = "1" -> 1 [] c = "2" -> 2 [] c = "3" -> 3
         [] c = "4" -> 4 [] c = "5" -> 5 [] c = "6" -> 6 [] c = "7" -> 7
         [] c = "8" -> 8 [] c = "9" -> 9]

DigitChar == [n \in 0..9 |-> CHOOSE c \in DOMAIN DigitValue : DigitValue[c] = n]

RECURSIVE DigitsValue(_)
DigitsValue(s) ==
    IF s = <<>> THEN 0 ELSE 10 * DigitsValue(SubSeq(s, 1, Len(s) - 1)) + DigitValue[s[Len(s)]]

RECURSIVE NatDigits(_)
NatDigits(n) == IF n < 10 THEN <<DigitChar[n]>> ELSE NatDigits(n \div 10) \o <<DigitChar[n % 10]>>

IntDigits(n) == IF n < 0 THEN <<"-">> \o NatDigits(-n) ELSE NatDigits(n)

abs(x) == IF x < 0 THEN -x ELSE x

IsDigits(s) == s # <<>> /\ \A i \in DOMAIN s : s[i] \in DOMAIN DigitValue

Signed(s) == s # <<>> /\ s[1] = "-"

Unsigned(s) == IF Signed(s) THEN Tail(s) ELSE s

\* float(s) of a stripped string: the decimal integers with an optional sign
ParseDecimal(s) ==
    IF IsDigits(Unsigned(s))
    THEN [ok |-> TRUE, v |-> 10 * (IF Signed(s) THEN -DigitsValue(Unsigned(s)) ELSE DigitsValue(Unsigned(s)))]
    ELSE [ok |-> FALSE, error |-> "ValueError"]

\* float(x): the value in tenths, or the exception raised
float(x) ==
    CASE x.t = "float" -> [ok |-> TRUE, v |-> x.v]
      [] x.t = "int"   -> [ok |-> TRUE, v |-> 10 * x.v]
      [] x.t = "str"   -> ParseDecimal(strip(x.v))
      [] OTHER         -> [ok |-> FALSE, error |-> "TypeError"]

\* str(x)
str(x) ==
    CASE x.t = "str"   -> x.v
      [] x.t = "none"  -> <<"N", "o", "n", "e">>
      [] x.t = "int"   -> IntDigits(x.v)
      [] x.t = "float" -> (IF x.v < 0 THEN <<"-">> ELSE <<>>)
                            \o NatDigits(abs(x.v) \div 10) \o <<".">> \o NatDigits(abs(x.v) % 10)
      [] OTHER         -> <<"[", "]">>

\* round(x, 2) on thousandths: to the nearest hundredth, ties to even
round2(x) ==
    LET q == x \div 10
        r == x % 10
    IN  10 * (IF r > 5 \/ (r = 5 /\ q % 2 = 1) THEN q + 1 ELSE q)

Min(a, b) == IF a < b THEN a ELSE b

Max(a, b) == IF a > b THEN a ELSE b

\* ------------------------------------------- NanoBioToxicityEstimator.run

SmallSizeNm == 50

LargeSizeNm == 200

ChargeLimitmV == 30

SmallSizeScore == 2500

LargeSizeScore == 3000

ChargeScore == 2500

MaterialScore == 2000

ScoreFloor == 0

ScoreCeiling == 10000

MediumFrom == 3000

HighFrom == 6000

Confidence == 500

Gold == <<"g", "o", "l", "d">>

Silver == <<"s", "i", "l", "v", "e", "r">>

\* a variant of the size rule with inclusive thresholds
SizeRule_inclusive(size_nm) ==
    IF size_nm <= 10 * SmallSizeNm THEN [score |-> SmallSizeScore, reasons |-> <<"size < 50 nm">>]
    ELSE IF size_nm >= 10 * LargeSizeNm THEN [score |-> LargeSizeScore, reasons |-> <<"size > 200 nm">>]
    ELSE [score |-> 0, reasons |-> <<>>]

\* the size rule: points and reason
SizeRule(size_nm) ==
    IF size_nm < 10 * SmallSizeNm THEN [score |-> SmallSizeScore, reasons |-> <<"size < 50 nm">>]
    ELSE IF size_nm > 10 * LargeSizeNm THEN [score |-> LargeSizeScore, reasons |-> <<"size > 200 nm">>]
    ELSE [score |-> 0, reasons |-> <<>>]

ChargeRule(charge_mV) ==
    IF abs(charge_mV) > 10 * ChargeLimitmV THEN [score |-> ChargeScore, reasons |-> <<"|charge| > 30 mV">>]
    ELSE [score |-> 0, reasons |-> <<>>]

\* f"material = {material}" for the two materials that pass the guard
MaterialRule(material) ==
    IF material \in {Gold, Silver}
    THEN [score |-> MaterialScore,
          reasons |-> <<IF material = Gold THEN "material = gold" ELSE "material = silver">>]
    ELSE [score |-> 0, reasons |-> <<>>]

\* score before the clamp
RawScore(size_nm, charge_mV, material) ==
    SizeRule(size_nm).score + ChargeRule(charge_mV).score + MaterialRule(material).score

\* a variant of the clamp that reports the score on a 0 to 100 scale
Clamp_percent(score) == Max(ScoreFloor, Min(10 * score, 10 * ScoreCeiling))

Clamp(score) == Max(ScoreFloor, Min(score, ScoreCeiling))

\* a variant of the risk bands whose "High" band starts at 5
RiskBand_early(score) == IF score < MediumFrom THEN "Low" ELSE IF score < HighFrom - 1000 THEN "Medium" ELSE "High"

RiskBand(score) == IF score < MediumFrom THEN "Low" ELSE IF score < HighFrom THEN "Medium" ELSE "High"

\* the returned dict, from the clamped score and the reasons
Verdict(score, reasons) ==
    [toxicity_score |-> round2(score),
     risk_level |-> RiskBand(score),
     reasons |-> reasons,
     confidence |-> Confidence,
     success |-> TRUE]

\* the body of run from the three converted inputs on
Estimate(size_nm, charge_mV, material) ==
    Verdict(Clamp(RawScore(size_nm, charge_mV, material)),
            SizeRule(size_nm).reasons \o ChargeRule(charge_mV).reasons \o MaterialRule(material).reasons)

Raise(e) == [ok |-> FALSE, error |-> e]

run_material(arguments, size_nm, charge) ==
    IF ~charge.ok THEN Raise(charge.error)
    ELSE IF "material" \notin Keys(arguments) THEN Raise("KeyError")
    ELSE [ok |-> TRUE,
          value |-> Estimate(size_nm, charge.v, lower(strip(str(Get(arguments, "material")))))]

run_charge(arguments, size) ==
    IF ~size.ok THEN Raise(size.error)
    ELSE IF "charge_mV" \notin Keys(arguments) THEN Raise("KeyError")
    ELSE run_material(arguments, size.v, float(Get(arguments, "charge_mV")))

\* run(arguments): the verdict, or the exception the body raises
run(arguments) ==
    IF "size_nm" \notin Keys(arguments) THEN Raise("KeyError")
    ELSE run_charge(arguments, float(Get(arguments, "size_nm")))

\* ------------------------------------------------------------ descriptors

\* a ParameterSpec: the accepted value tags, required or not, optional maximum
ParameterSpec(n, k, req, hasMax, mx) ==
    [name |-> n, kinds |-> k, required |-> req, hasMax |-> hasMax, max |-> mx]

Number == {"int", "float"}

\* a variant of the contract in which material is optional
NanoBioRequired_short == {"size_nm", "charge_mV"}

\* config["parameter"] of the register_tool decorator
NanoBioRequired == {"size_nm", "charge_mV", "material"}

NanoBioParameter ==
    << ParameterSpec("size_nm", Number, "size_nm" \in NanoBioRequired, FALSE, 0),
       ParameterSpec("charge_mV", Number, "charge_mV" \in NanoBioRequired, FALSE, 0),
       ParameterSpec("material", {"str"}, "material" \in NanoBioRequired, FALSE, 0) >>

LimitMax == 500

\* the parameter contract the UniProt_search docstring documents
UniProtParameter ==
    << ParameterSpec("query", {"str"}, TRUE, FALSE, 0),
       ParameterSpec("organism", {"str"}, FALSE, FALSE, 0),
       ParameterSpec("limit", {"int", "str"}, FALSE, TRUE, LimitMax),
       ParameterSpec("fields", {"list"}, FALSE, FALSE, 0),
       ParameterSpec("min_length", {"int"}, FALSE, FALSE, 0),
       ParameterSpec("max_length", {"int"}, FALSE, FALSE, 0) >>

\* -------------------------------------------------------------- validator

\* a parameter counts as supplied when its key is present with a non-None value
Supplied(arguments, name) == name \in Keys(arguments) /\ Get(arguments, name) # None

\* the numeric bound of a ParameterSpec on a converted value
CheckMax(spec, number) ==
    IF ~number.ok THEN "type mismatch"
    ELSE IF number.v > 10 * spec.max THEN "out of range"
    ELSE "ok"

\* the first constraint of a ParameterSpec a supplied value violates, or "ok"
CheckValue(spec, x) ==
    IF x.t \notin spec.kinds THEN "type mismatch"
    ELSE IF spec.hasMax THEN CheckMax(spec, float(x))
    ELSE "ok"

CheckParameter(spec, arguments) ==
    IF ~Supplied(arguments, spec.name)
    THEN IF spec.required THEN "missing required parameter" ELSE "ok"
    ELSE CheckValue(spec, Get(arguments, spec.name))

Least(S) == CHOOSE i \in S : \A j \in S : i <= j

\* the supplied parameters in contract order; an optional parameter without
\* a default is omitted
NormalizedFrom(supplied, arguments) ==
    [i \in DOMAIN supplied |-> <<supplied[i].name, Get(arguments, supplied[i].name)>>]

Normalize(parameters, arguments) ==
    NormalizedFrom(SelectSeq(parameters, LAMBDA q : Supplied(arguments, q.name)), arguments)

ValidateFrom(parameters, arguments, bad, extra) ==
    IF bad # {}
    THEN [ok |-> FALSE, param |-> parameters[Least(bad)].name,
          reason |-> CheckParameter(parameters[Least(bad)], arguments)]
    ELSE IF extra # {}
    THEN [ok |-> FALSE, param |-> arguments[Least(extra)][1], reason |-> "unexpected parameter"]
    ELSE [ok |-> TRUE, normalized |-> Normalize(parameters, arguments)]

\* validate(descriptor, arguments): the normalized arguments, or the
\* ValidationError with the offending parameter and reason.  Parameters
\* outside the contract are rejected.
Validate(parameters, arguments) ==
    ValidateFrom(parameters, arguments,
                 {i \in DOMAIN parameters : CheckParameter(parameters[i], arguments) # "ok"},
                 {i \in DOMAIN arguments : arguments[i][1] \notin {parameters[j].name : j \in DOMAIN parameters}})

\* ------------------------------------------------------------------ cache

\* normalized representation of one value: numbers as floats, lists by content
CanonValue(x) ==
    CASE x.t = "int"  -> FloatV(10 * x.v)
      [] x.t = "list" -> [t |-> "list", items |-> x.items]
      [] OTHER        -> x

\* the key of (tool name, arguments): independent of the order of the dict
CacheKey(name, arguments) ==
    <<name, [k \in Keys(arguments) |-> CanonValue(Get(arguments, k))]>>

CachePut(ch, key, value) ==
    [k \in DOMAIN ch \cup {key} |-> IF k = key THEN value ELSE ch[k]]

\* --------------------------------------------------------------- registry

\* the registry is the sequence of its entries, in registration order
Names(reg) == {reg[i].name : i \in DOMAIN reg}

\* resolve(name) for a name that is present
resolve(reg, name) == reg[CHOOSE i \in DOMAIN reg : reg[i].name = name /\ \A j \in DOMAIN reg : reg[j].name = name => i <= j]

\* a variant of register that replaces an entry already present
register_replacing(reg, name, descriptor, implementation) ==
    [ok |-> TRUE, error |-> "",
     registry |-> Append(reg, [name |-> name, descriptor |-> descriptor,
                               implementation |-> implementation])]

\* register(name, descriptor, implementation)
register(reg, name, descriptor, implementation) ==
    IF name \in Names(reg)
    THEN [ok |-> FALSE, error |-> "DuplicateToolError", registry |-> reg]
    ELSE [ok |-> TRUE, error |-> "",
          registry |-> Append(reg, [name |-> name, descriptor |-> descriptor,
                                    implementation |-> implementation])]

\* the registry built at process start from the enumerated tools
RECURSIVE BuildRegistry(_, _)
BuildRegistry(reg, tools) ==
    IF tools = <<>> THEN reg
    ELSE BuildRegistry(register(reg, tools[1].name, tools[1].descriptor, tools[1].implementation).registry,
                       Tail(tools))

\* ------------------------------------------------------- implementations

\* the remote-query variant is an external collaborator: a stub that answers
\* with the arguments it was given
UniProtStub(arguments) ==
    [ok |-> TRUE, value |-> [tool |-> "UniProt_search", echo |-> CacheKey("UniProt_search", arguments)[2]]]

OtherStub(arguments) == [ok |-> TRUE, value |-> [tool |-> "other"]]

\* execute(arguments) of the implementation registered under a tag
Execute(implementation, arguments) ==
    CASE implementation = "NanoBioToxicityEstimator" -> run(arguments)
      [] implementation = "UniProt_search"           -> UniProtStub(arguments)
      [] OTHER                                       -> OtherStub(arguments)

\* the tools registered at module load
StartupTools ==
    << [name |-> "NanoBioToxicityEstimator", descriptor |-> NanoBioParameter,
        implementation |-> "NanoBioToxicityEstimator"],
       [name |-> "UniProt_search", descriptor |-> UniProtParameter,
        implementation |-> "UniProt_search"] >>

\* ------------------------------------------------------------- dispatcher

\* what one call did: its result or error, and the steps it took
Trace(status, value, lookup, hit, executed, store) ==
    [status |-> status, value |-> value, lookup |-> lookup, hit |-> hit,
     executed |-> executed, store |-> store]

Outcome(trace, ch, ec) == [out |-> trace, cache |-> ch, execCount |-> ec]

\* steps 5 and 6: store on success when caching, wrap a failure
Finish(ch, ec, name, key, use_cache, result) ==
    IF ~result.ok
    THEN Outcome(Trace("ToolExecutionError", [cause |-> result.error], use_cache, FALSE, TRUE, FALSE), ch, ec)
    ELSE IF use_cache
    THEN Outcome(Trace("ok", result.value, TRUE, FALSE, TRUE, TRUE), CachePut(ch, key, result.value), ec)
    ELSE Outcome(Trace("ok", result.value, FALSE, FALSE, TRUE, FALSE), ch, ec)

\* steps 3 and 4: the cache lookup, else the implementation
LookupOrExecute(ch, ec, tool, name, arguments, key, use_cache) ==
    IF use_cache /\ key \in DOMAIN ch
    THEN Outcome(Trace("ok", ch[key], TRUE, TRUE, FALSE, FALSE), ch, ec)
    ELSE Finish(ch, [ec EXCEPT ![name] = @ + 1], name, key, use_cache,
                Execute(tool.implementation, arguments))

\* step 2 done: checked is the validator's answer
AfterValidate(ch, ec, tool, name, checked, use_cache) ==
    IF ~checked.ok
    THEN Outcome(Trace("ValidationError", [param |-> checked.param, reason |-> checked.reason],
                       FALSE, FALSE, FALSE, FALSE), ch, ec)
    ELSE LookupOrExecute(ch, ec, tool, name, checked.normalized,
                         CacheKey(name, checked.normalized), use_cache)

\* step 1 done: tool is the registry entry
AfterResolve(ch, ec, tool, request, use_cache, validate) ==
    AfterValidate(ch, ec, tool, request.name,
                  IF validate THEN Validate(tool.descriptor, request.arguments)
                  ELSE [ok |-> TRUE, normalized |-> request.arguments],
                  use_cache)

\* run_one_function(request, stream_callback=, use_cache=, validate=) on the
\* registry reg, cache ch and execution counters ec
run_one_function(reg, ch, ec, request, stream_callback, use_cache, validate) ==
    IF request.name \notin Names(reg)
    THEN Outcome(Trace("UnknownToolError", [name |-> request.name], FALSE, FALSE, FALSE, FALSE), ch, ec)
    ELSE AfterResolve(ch, ec, resolve(reg, request.name), request, use_cache, validate)

\* ------------------------------------------------------------ the wrapper

Absent == [given |-> FALSE]

Given(x) == [given |-> TRUE, v |-> x]

\* the value a parameter is bound to: the caller's, or the signature default
Bind(a, default) == IF a.given THEN a.v ELSE default

\* a variant of the signature with a list literal as the default of fields
UniProt_search_defaults_shared ==
    [organism |-> None, limit |-> None, fields |-> ListV("default", <<>>), min_length |-> None,
     max_length |-> None, stream_callback |-> None, use_cache |-> FALSE, validate |-> TRUE]

\* the defaults of the UniProt_search signature
UniProt_search_defaults ==
    [organism |-> None, limit |-> None, fields |-> None, min_length |-> None,
     max_length |-> None, stream_callback |-> None, use_cache |-> FALSE, validate |-> TRUE]

Call(name, arguments, stream_callback, use_cache, validate) ==
    [request |-> [name |-> name, arguments |-> arguments],
     stream_callback |-> stream_callback, use_cache |-> use_cache, validate |-> validate]

SixArguments(query, organism, limit, fields, min_length, max_length) ==
    << <<"query", query>>, <<"organism", organism>>, <<"limit", limit>>, <<"fields", fields>>,
       <<"min_length", min_length>>, <<"max_length", max_length>> >>

\* a variant of the body that passes validate where use_cache belongs and back
UniProt_search_calls_swapped(query, organism, limit, fields, min_length, max_length, stream_callback, use_cache, validate) ==
    << Call("UniProt_search", SixArguments(query, organism, limit, fields, min_length, max_length),
            stream_callback, validate, use_cache) >>

\* a variant of the body that clamps limit to the documented maximum
UniProt_search_calls_clamped(query, organism, limit, fields, min_length, max_length, stream_callback, use_cache, validate) ==
    << Call("UniProt_search",
            SixArguments(query, organism,
                         IF limit.t = "int" /\ limit.v > LimitMax THEN IntV(LimitMax) ELSE limit,
                         fields, min_length, max_length),
            stream_callback, use_cache, validate) >>

\* a variant of the body that does not forward use_cache
UniProt_search_calls_uncached(query, organism, limit, fields, min_length, max_length, stream_callback, use_cache, validate) ==
    << Call("UniProt_search", SixArguments(query, organism, limit, fields, min_length, max_length),
            stream_callback, FALSE, validate) >>

\* a variant of the body that always asks for the cache
UniProt_search_calls_cached(query, organism, limit, fields, min_length, max_length, stream_callback, use_cache, validate) ==
    << Call("UniProt_search", SixArguments(query, organism, limit, fields, min_length, max_length),
            stream_callback, TRUE, validate) >>

\* the body of UniProt_search: the dispatcher calls it makes, in order
UniProt_search_calls(query, organism, limit, fields, min_length, max_length, stream_callback, use_cache, validate) ==
    << Call("UniProt_search", SixArguments(query, organism, limit, fields, min_length, max_length),
            stream_callback, use_cache, validate) >>

RECURSIVE DispatchAll(_, _, _, _, _)

\* what UniProt_search returns, given the outcomes of its dispatcher calls
UniProt_search_return(outs) == [status |-> outs[Len(outs)].status, value |-> outs[Len(outs)].value]

DispatchRest(reg, rest, outs, o) ==
    IF rest = <<>> THEN [outs |-> Append(outs, o.out), cache |-> o.cache, execCount |-> o.execCount]
    ELSE DispatchAll(reg, o.cache, o.execCount, rest, Append(outs, o.out))

\* the calls of one operation run in order on the shared client
DispatchAll(reg, ch, ec, calls, outs) ==
    DispatchRest(reg, Tail(calls), outs,
                 run_one_function(reg, ch, ec, calls[1].request, calls[1].stream_callback,
                                  calls[1].use_cache, calls[1].validate))

\* ----------------------------------------------------------------- inputs

MaxCalls == 2

Polymer == <<"p", "o", "l", "y", "m", "e", "r">>

Callback == [t |-> "callable", obj |-> "cb"]

ToolNames == {"NanoBioToxicityEstimator", "UniProt_search", "Foo"}

\* argument dicts handed to the dispatcher for the estimator
NanoBioArguments ==
    { << <<"size_nm", IntV(30)>>, <<"charge_mV", IntV(10)>>, <<"material", StrV(Polymer)>> >>,
      << <<"material", StrV(Polymer)>>, <<"charge_mV", FloatV(100)>>, <<"size_nm", FloatV(300)>> >>,
      << <<"size_nm", IntV(250)>>, <<"charge_mV", IntV(-40)>>, <<"material", StrV(<<" ", "G", "o", "l", "d">>)>> >>,
      << <<"size_nm", IntV(30)>>, <<"charge_mV", IntV(10)>> >>,
      << <<"size_nm", StrV(<<"3", "0">>)>>, <<"charge_mV", IntV(10)>>, <<"material", StrV(Polymer)>> >> }

Query == StrV(<<"T", "P", "5", "3">>)

CallerFields == ListV("caller", <<"accession", "length">>)

CallerEmptyFields == ListV("caller2", <<>>)

UniProtArgs(organism, limit, fields, min_length, max_length) ==
    [query |-> Query, organism |-> organism, limit |-> limit, fields |-> fields,
     min_length |-> min_length, max_length |-> max_length]

\* what callers pass to UniProt_search besides the flags
UniProtArguments ==
    { UniProtArgs(Absent, Absent, Absent, Absent, Absent),
      UniProtArgs(Given(StrV(<<"h", "u", "m", "a", "n">>)), Given(IntV(LimitMax)), Absent,
                  Given(IntV(400)), Given(IntV(500))),
      UniProtArgs(Absent, Given(IntV(LimitMax + 1)), Given(CallerFields), Absent, Absent),
      UniProtArgs(Absent, Absent, Given(CallerEmptyFields), Absent, Absent) }

FlagInputs == {Absent, Given(TRUE), Given(FALSE)}

\* ---------------------------------------------------------------- actions

Init ==
    /\ registry = BuildRegistry(<<>>, StartupTools)
    /\ cache = <<>>
    /\ execCount = [n \in ToolNames |-> 0]
    /\ nCalls = 0
    /\ last = [op |-> "start"]

\* a caller calls UniProt_search(...)
UniProt_search ==
    /\ nCalls < MaxCalls
    /\ \E a \in UniProtArguments, sc \in {Absent, Given(Callback)}, uc \in FlagInputs, va \in FlagInputs :
         LET d == UniProt_search_defaults
             calls == UniProt_search_calls(a.query, Bind(a.organism, d.organism), Bind(a.limit, d.limit),
                                           Bind(a.fields, d.fields), Bind(a.min_length, d.min_length),
                                           Bind(a.max_length, d.max_length),
                                           Bind(sc, d.stream_callback), Bind(uc, d.use_cache),
                                           Bind(va, d.validate))
         IN  \E st \in {DispatchAll(registry, cache, execCount, calls, <<>>)} :
             /\ cache' = st.cache
             /\ execCount' = st.execCount
             /\ last' = [op |-> "UniProt_search",
                         caller |-> [arguments |-> a, stream_callback |-> sc, use_cache |-> uc, validate |-> va],
                         calls |-> calls, outs |-> st.outs, returned |-> UniProt_search_return(st.outs)]
    /\ nCalls' = nCalls + 1
    /\ UNCHANGED registry

\* a caller calls run_one_function on the shared client directly
Call_run_one_function ==
    /\ nCalls < MaxCalls
    /\ \E r \in ([name : {"NanoBioToxicityEstimator"}, arguments : NanoBioArguments]
                  \cup [name : {"Foo"}, arguments : {<<>>}]),
          sc \in {None, Callback}, uc \in BOOLEAN, va \in BOOLEAN :
         LET calls == << Call(r.name, r.arguments, sc, uc, va) >>
         IN  \E st \in {DispatchAll(registry, cache, execCount, calls, <<>>)} :
             /\ cache' = st.cache
             /\ execCount' = st.execCount
             /\ last' = [op |-> "run_one_function",
                         caller |-> [arguments |-> r.arguments, stream_callback |-> sc, use_cache |-> uc,
                                     validate |-> va],
                         calls |-> calls, outs |-> st.outs,
                         returned |-> [status |-> st.outs[1].status, value |-> st.outs[1].value]]
    /\ nCalls' = nCalls + 1
    /\ UNCHANGED registry

\* a module registers a tool at run time
Register ==
    /\ \E name \in {"NanoBioToxicityEstimator", "Foo"},
          implementation \in {"Replacement"} :
         LET r == register(registry, name, <<>>, implementation)
         IN  /\ registry' = r.registry
             /\ last' = [op |-> "register", name |-> name, implementation |-> implementation,
                         ok |-> r.ok, error |-> r.error]
    /\ UNCHANGED <<cache, execCount, nCalls>>

Next == UniProt_search \/ Call_run_one_function \/ Register

Spec == Init /\ [][Next]_vars

\* ----------------------------------------- the estimator as a pure function

Sizes == {IntV(30), FloatV(499), IntV(50), FloatV(501), IntV(200), FloatV(2001), IntV(250),
          StrV(<<" ", "3", "0">>)}

Charges == {IntV(-31), FloatV(-300), IntV(0), IntV(10), IntV(30), FloatV(301)}

Materials == {StrV(Polymer), StrV(Gold), StrV(<<" ", "G", "o", "l", "d", " ">>),
              StrV(<<"G", "O", "L", "D", "\n">>), StrV(Silver), StrV(<<"\t", "S", "i", "l", "v", "e", "r">>),
              StrV(<<"g", " ", "o", "l", "d">>), StrV(<<>>), None}

RunInputs ==
    { << <<"size_nm", s>>, <<"charge_mV", c>>, <<"material", m>> >> : s \in Sizes, c \in Charges, m \in Materials }

InitRun ==
    /\ registry = BuildRegistry(<<>>, StartupTools)
    /\ cache = <<>>
    /\ execCount = [n \in ToolNames |-> 0]
    /\ nCalls = 0
    /\ \E a \in RunInputs : last = [op |-> "arguments", arguments |-> a]

\* NanoBioToxicityEstimator().run(arguments)
Run ==
    /\ last.op = "arguments"
    /\ last' = [op |-> "run", arguments |-> last.arguments, result |-> run(last.arguments)]
    /\ UNCHANGED <<registry, cache, execCount, nCalls>>

NextRun == Run

SpecRun == InitRun /\ [][NextRun]_vars

\* ================================================================ claims

\* ---- helpers of the claims

IsCall(l) == l.op \in {"UniProt_search", "run_one_function"}

\* the flags as the caller of the operation gave them (UniProt_search
\* documents use_cache=False and validate=True for a flag left out)
CallerUseCache(l) ==
    IF l.op = "UniProt_search" THEN l.caller.use_cache = Given(TRUE) ELSE l.caller.use_cache

CallerValidate(l) ==
    IF l.op = "UniProt_search" THEN l.caller.validate # Given(FALSE) ELSE l.caller.validate

\* the call went past resolution and validation
Reached(l) == l.returned.status \in {"ok", "ToolExecutionError"}

\* the cache key of the call's tool and arguments, for a call that passed validation
KeyOf(reg, l) ==
    CacheKey(l.calls[1].request.name,
             IF CallerValidate(l)
             THEN Normalize(resolve(reg, l.calls[1].request.name).descriptor, l.calls[1].request.arguments)
             ELSE l.calls[1].request.arguments)

RefSize(a) == float(Get(a, "size_nm")).v

RefCharge(a) == float(Get(a, "charge_mV")).v

RefMaterial(a) == lower(strip(str(Get(a, "material"))))

RefSmall(a) == RefSize(a) < 500

RefLarge(a) == ~RefSmall(a) /\ RefSize(a) > 2000

RefCharged(a) == RefCharge(a) > 300 \/ RefCharge(a) < -300

RefNoble(a) == RefMaterial(a) \in {Gold, Silver}

RefScore(a) ==
    (IF RefSmall(a) THEN 2500 ELSE IF RefLarge(a) THEN 3000 ELSE 0)
      + (IF RefCharged(a) THEN 2500 ELSE 0) + (IF RefNoble(a) THEN 2000 ELSE 0)

RefReasons(a) ==
    (IF RefSmall(a) THEN <<"size < 50 nm">> ELSE IF RefLarge(a) THEN <<"size > 200 nm">> ELSE <<>>)
      \o (IF RefCharged(a) THEN <<"|charge| > 30 mV">> ELSE <<>>)
      \o (IF RefNoble(a)
          THEN <<IF RefMaterial(a) = Gold THEN "material = gold" ELSE "material = silver">>
          ELSE <<>>)

RefRisk(a) == IF RefScore(a) < 3000 THEN "Low" ELSE IF RefScore(a) < 6000 THEN "Medium" ELSE "High"

Scenario3 == << <<"size_nm", IntV(30)>>, <<"charge_mV", IntV(10)>>, <<"material", StrV(Polymer)>> >>

Ran == last.op = "run" /\ last.result.ok

\* C1: run returns the verdict of the reference rule table: the score is the
\* sum of the size, charge and material points, reasons lists the rules that
\* fired in the order size, charge, material, the risk band follows the
\* score, confidence is 0.5; size 30, charge 10, polymer gives
\* reasons = ["size < 50 nm"], score 2.5, risk "Low".
C1_RuleTable ==
    Ran =>
      /\ last.result.value.toxicity_score = RefScore(last.arguments)
      /\ last.result.value.reasons = RefReasons(last.arguments)
      /\ last.result.value.risk_level = RefRisk(last.arguments)
      /\ last.result.value.confidence = 500
      /\ (last.arguments = Scenario3 =>
            /\ last.result.value.reasons = <<"size < 50 nm">>
            /\ last.result.value.toxicity_score = 2500
            /\ last.result.value.risk_level = "Low")

C1_Witness ==
    /\ Ran
    /\ last.arguments = Scenario3
    /\ last.result.value.toxicity_score = 2500

\* C2: the returned toxicity_score lies between 0 and 10 inclusive.
C2_ScoreInRange ==
    Ran => last.result.value.toxicity_score >= 0 /\ last.result.value.toxicity_score <= 10000

C2_Witness ==
    /\ Ran
    /\ Len(last.result.value.reasons) = 3
    /\ last.result.value.toxicity_score = 7500

SizeReasons == {"size < 50 nm", "size > 200 nm"}

ReasonSet(v) == {v.reasons[i] : i \in DOMAIN v.reasons}

\* C10: risk_level is "High" exactly when a size rule, the charge rule and
\* the material rule all fired; at most one size reason is listed, reasons
\* has at most three entries, and the score before the clamp is at most 7.5,
\* so the clamp leaves it as it is.
C10_HighIffAllRules ==
    Ran =>
      /\ (last.result.value.risk_level = "High") <=>
           /\ ReasonSet(last.result.value) \cap SizeReasons # {}
           /\ "|charge| > 30 mV" \in ReasonSet(last.result.value)
           /\ ReasonSet(last.result.value) \cap {"material = gold", "material = silver"} # {}
      /\ Cardinality({i \in DOMAIN last.result.value.reasons :
                        last.result.value.reasons[i] \in SizeReasons}) <= 1
      /\ Len(last.result.value.reasons) <= 3
      /\ RawScore(RefSize(last.arguments), RefCharge(last.arguments), RefMaterial(last.arguments)) <= 7500
      /\ last.result.value.toxicity_score
           = RawScore(RefSize(last.arguments), RefCharge(last.arguments), RefMaterial(last.arguments))

C10_Witness ==
    /\ Ran
    /\ last.result.value.risk_level = "High"
    /\ "size > 200 nm" \in ReasonSet(last.result.value)

Sent == last.calls[1]

SentArgument(k) == Get(Sent.request.arguments, k)

\* the value the caller gave for a parameter of UniProt_search, None when left out
CallerValue(a) == IF a.given THEN a.v ELSE None

\* C3: UniProt_search makes exactly one run_one_function call, named
\* "UniProt_search", whose arguments are the six parameters with the caller's
\* values, and whose three flags are the caller's, each on its own; without
\* flags validation is on, caching is off and there is no stream callback;
\* the wrapper returns what the dispatcher returned.
C3_Forwarding ==
    last.op = "UniProt_search" =>
      /\ Len(last.calls) = 1
      /\ Len(last.outs) = 1
      /\ Sent.request.name = "UniProt_search"
      /\ Keys(Sent.request.arguments)
           = {"query", "organism", "limit", "fields", "min_length", "max_length"}
      /\ Len(Sent.request.arguments) = 6
      /\ SentArgument("query") = last.caller.arguments.query
      /\ SentArgument("organism") = CallerValue(last.caller.arguments.organism)
      /\ SentArgument("limit") = CallerValue(last.caller.arguments.limit)
      /\ SentArgument("fields") = CallerValue(last.caller.arguments.fields)
      /\ SentArgument("min_length") = CallerValue(last.caller.arguments.min_length)
      /\ SentArgument("max_length") = CallerValue(last.caller.arguments.max_length)
      /\ Sent.stream_callback = CallerValue(last.caller.stream_callback)
      /\ Sent.use_cache = (last.caller.use_cache = Given(TRUE))
      /\ Sent.validate = (last.caller.validate # Given(FALSE))
      /\ last.returned = [status |-> last.outs[1].status, value |-> last.outs[1].value]

C3_Witness ==
    /\ last.op = "UniProt_search"
    /\ last.caller.use_cache = Given(TRUE)
    /\ last.caller.validate = Given(FALSE)
    /\ last.caller.stream_callback = Absent
    /\ last.returned.status = "ok"

OverLimit ==
    /\ last.op = "UniProt_search"
    /\ CallerValidate(last)
    /\ last.caller.arguments.limit.given
    /\ last.caller.arguments.limit.v.v > 500

\* C4: a UniProt_search call with validation on and a limit above 500 is
\* rejected by validation for the range of limit; the limit sent is the
\* caller's, not the maximum, and the implementation does not run.
C4_LimitRejected ==
    OverLimit =>
      /\ last.returned.status = "ValidationError"
      /\ last.returned.value = [param |-> "limit", reason |-> "out of range"]
      /\ SentArgument("limit") = last.caller.arguments.limit.v
      /\ \A i \in DOMAIN last.outs : ~last.outs[i].executed

C4_Witness ==
    /\ OverLimit
    /\ last.caller.arguments.limit.v = IntV(501)
    /\ last.returned.status = "ValidationError"

\* C9 as stated: without fields, the request carries an empty sequence made
\* for that call.
C9_FreshEmptySequence ==
    (last.op = "UniProt_search" /\ ~last.caller.arguments.fields.given) =>
      /\ SentArgument("fields").t = "list"
      /\ SentArgument("fields").items = <<>>
      /\ SentArgument("fields").obj \notin {"default", "caller", "caller2"}

\* C9 amended: without fields, the request carries None for fields, so no
\* sequence object, shared or not, reaches the dispatcher.
C9_NoneForAbsentFields ==
    (last.op = "UniProt_search" /\ ~last.caller.arguments.fields.given) =>
      /\ SentArgument("fields") = None
      /\ SentArgument("fields").t # "list"

C9_Witness ==
    /\ last.op = "UniProt_search"
    /\ ~last.caller.arguments.fields.given
    /\ last.returned.status = "ok"
    /\ nCalls = 2

\* C5: once a call asking for the cache has succeeded for a tool and its
\* arguments, a later call asking for the cache with the same tool and the
\* same arguments up to key order and number representation returns the
\* stored result, and the execution count does not grow.
C5_HitStep ==
    (IsCall(last') /\ CallerUseCache(last') /\ Reached(last')) =>
      /\ KeyOf(registry, last') \in DOMAIN cache =>
           /\ execCount' = execCount
           /\ cache' = cache
           /\ last'.returned = [status |-> "ok", value |-> cache[KeyOf(registry, last')]]
      /\ ( /\ IsCall(last) /\ CallerUseCache(last) /\ last.returned.status = "ok"
            /\ KeyOf(registry, last) = KeyOf(registry, last') ) =>
           /\ execCount' = execCount
           /\ last'.returned = last.returned

BreaksNanoBioContract(arguments) ==
    \/ \E k \in {"size_nm", "charge_mV", "material"} : k \notin Keys(arguments)
    \/ \E k \in {"size_nm", "charge_mV"} : k \in Keys(arguments) /\ Get(arguments, k).t = "str"

InvalidCall(l) ==
    /\ IsCall(l)
    /\ CallerValidate(l)
    /\ \/ /\ l.calls[1].request.name = "NanoBioToxicityEstimator"
          /\ BreaksNanoBioContract(l.calls[1].request.arguments)
       \/ /\ l.op = "UniProt_search"
          /\ l.caller.arguments.limit.given
          /\ l.caller.arguments.limit.v.v > 500

\* C6: a call with validation on whose arguments break the parameter
\* contract ends in a ValidationError; it looks nothing up in the cache,
\* stores nothing and does not run the tool, whatever use_cache and
\* stream_callback are.
C6_InvalidStep ==
    InvalidCall(last') =>
      /\ last'.returned.status = "ValidationError"
      /\ \A i \in DOMAIN last'.outs :
            ~last'.outs[i].lookup /\ ~last'.outs[i].store /\ ~last'.outs[i].executed
      /\ cache' = cache
      /\ execCount' = execCount

C6_ValidationIsolation == [][C6_InvalidStep]_vars

C6_Witness ==
    /\ InvalidCall(last)
    /\ last.op = "run_one_function"
    /\ "material" \notin Keys(last.caller.arguments)
    /\ last.caller.use_cache
    /\ last.caller.stream_callback = Callback
    /\ last.returned.status = "ValidationError"
    /\ cache # <<>>

\* C7: a call with use_cache off neither reads nor writes the cache: the
\* cache is as before, and the implementation runs for it even when an
\* earlier call stored a result under the same key.
C7_UncachedStep ==
    (IsCall(last') /\ ~CallerUseCache(last')) =>
      /\ cache' = cache
      /\ \A i \in DOMAIN last'.outs : ~last'.outs[i].lookup /\ ~last'.outs[i].store
      /\ Reached(last') =>
           /\ last'.outs[1].executed
           /\ execCount'[last'.calls[1].request.name] = execCount[last'.calls[1].request.name] + 1

C7_PerCallFlag == [][C7_UncachedStep]_vars

C7_Witness ==
    /\ last.op = "UniProt_search"
    /\ ~CallerUseCache(last)
    /\ last.returned.status = "ok"
    /\ last.outs[1].executed
    /\ KeyOf(registry, last) \in DOMAIN cache
    /\ execCount["UniProt_search"] = 2

Unique(reg) == \A i, j \in DOMAIN reg : reg[i].name = reg[j].name => i = j

\* C8: names are unique in the registry after any registrations; registering
\* a name already present fails with DuplicateToolError and leaves the
\* registry as it was.
C8_RegisterStep ==
    /\ Unique(registry')
    /\ (last'.op = "register" /\ last'.name \in Names(registry)) =>
         /\ registry' = registry
         /\ ~last'.ok
         /\ last'.error = "DuplicateToolError"

C8_UniqueNames == [][C8_RegisterStep]_vars

C8_Witness ==
    /\ last.op = "register"
    /\ last.name = "NanoBioToxicityEstimator"
    /\ ~last.ok
    /\ resolve(registry, "NanoBioToxicityEstimator").implementation = "NanoBioToxicityEstimator"
    /\ Len(registry) = 2

====
